---- MODULE Spec2Model ----
(* A model of the generative grammar package: tokenize, parseInternal,      *)
(* node.add, Tree.Generate, Tree.compose, Tree.inflate and Tree.Reset.       *)
(*                                                                           *)
(* A Go string is modelled as a sequence of one-character strings, so that   *)
(* indexing, slicing and ReplaceAll are computed as the code computes them.  *)
(* The Source field of tokens and nodes only feeds error messages and the    *)
(* formatter; it is left out.                                                *)
EXTENDS Integers, Sequences, FiniteSets, TLC

VARIABLES grammar, files, token, pos, st, uniqueUsed, op

vars == <<grammar, files, token, pos, st, uniqueUsed, op>>

----------------------------------------------------------------------------
(* Strings                                                                   *)

Max(S) == CHOOSE x \in S : \A y \in S : y <= x

Min(S) == CHOOSE x \in S : \A y \in S : x <= y

Last(s) == s[Len(s)]

\* s[i:] with a 1-based i
From(s, i) == SubSeq(s, i, Len(s))

HasPrefixAt(s, i, p) == i + Len(p) - 1 <= Len(s) /\ SubSeq(s, i, i + Len(p) - 1) = p

\* strings.Contains
Contains(s, p) == \E i \in 1..(Len(s) + 1) : HasPrefixAt(s, i, p)

\* strings.Index, 1-based, 0 when absent
Index(s, p) == IF Contains(s, p) THEN Min({i \in 1..(Len(s) + 1) : HasPrefixAt(s, i, p)}) ELSE 0

\* strings.ReplaceAll for a non-empty from: leftmost, non-overlapping
RECURSIVE ReplaceAll(_, _, _)
ReplaceAll(s, from, to) ==
    LET i == Index(s, from)
    IN  IF i = 0 THEN s
        ELSE SubSeq(s, 1, i - 1) \o to \o ReplaceAll(From(s, i + Len(from)), from, to)

\* strings.Split for a one-character separator
RECURSIVE Split(_, _)
Split(s, sep) ==
    IF ~ \E i \in 1..Len(s) : s[i] = sep THEN <<s>>
    ELSE LET i == Min({j \in 1..Len(s) : s[j] = sep})
         IN  <<SubSeq(s, 1, i - 1)>> \o Split(From(s, i + 1), sep)

\* strings.Join
RECURSIVE Join(_, _)
Join(parts, sep) ==
    IF parts = <<>> THEN <<>>
    ELSE IF Len(parts) = 1 THEN parts[1]
    ELSE parts[1] \o sep \o Join(Tail(parts), sep)

\* strings.Trim(s, " ")
RECURSIVE Trim(_)
Trim(s) ==
    IF s = <<>> THEN s
    ELSE IF s[1] = " " THEN Trim(Tail(s))
    ELSE IF Last(s) = " " THEN Trim(SubSeq(s, 1, Len(s) - 1))
    ELSE s

Digit(d) == <<"0", "1", "2", "3", "4", "5", "6", "7", "8", "9">>[d + 1]

\* fmt.Sprintf("%d", n) for n >= 0
RECURSIVE Dec(_)
Dec(n) == IF n < 10 THEN <<Digit(n)>> ELSE Dec(n \div 10) \o <<Digit(n % 10)>>

----------------------------------------------------------------------------
(* tokenize                                                                  *)

RECURSIVE lineTokens(_)
lineTokens(words) ==
    IF words = <<>> THEN <<>>
    ELSE LET t == Trim(words[1])
         IN  IF t = <<"/", "/">> THEN <<>>
             ELSE IF t # <<>> THEN <<t>> \o lineTokens(Tail(words))
             ELSE lineTokens(Tail(words))

tokenizeLine(line0) ==
    LET l1 == Trim(ReplaceAll(line0, <<"\t">>, <<>>))
        l2 == ReplaceAll(l1, <<"/", "/">>, <<" ", "/", "/", " ">>)
        l3 == ReplaceAll(l2, <<"[">>, <<" ", "[", " ">>)
        l4 == ReplaceAll(l3, <<"]">>, <<" ", "]", " ">>)
        l5 == ReplaceAll(l4, <<"|">>, <<" ", "|", " ">>)
        l6 == ReplaceAll(l5, <<"{">>, <<" ", "{">>)
        l7 == ReplaceAll(l6, <<"}">>, <<"}", " ">>)
        l8 == ReplaceAll(l7, <<" ", " ">>, <<" ">>)
    IN  lineTokens(Split(l8, " "))

RECURSIVE tokenizeLines(_)
tokenizeLines(lines) ==
    IF lines = <<>> THEN <<>>
    ELSE tokenizeLine(lines[1]) \o tokenizeLines(Tail(lines))

tokenize(input) == tokenizeLines(Split(input, "\n"))

----------------------------------------------------------------------------
(* The tree: node.child slices are modelled as one arena of nodes in order   *)
(* of creation, each with the index of its parent (0 is the root), so that   *)
(* the children of a node, in append order, are the nodes naming it parent.  *)

mkNode(text, type, parent) == [Text |-> text, internalType |-> type, parent |-> parent]

child(nodes, n) == {i \in 1..Len(nodes) : nodes[i].parent = n}

\* the children of n as a slice, in order
RECURSIVE setToSeq(_)
setToSeq(S) == IF S = {} THEN <<>> ELSE LET m == Min(S) IN <<m>> \o setToSeq(S \ {m})

childSeq(nodes, n) == setToSeq(child(nodes, n))

\* mutant of add: the search takes the first child with the text
RECURSIVE addFirst(_, _, _, _)
addFirst(nodes, group, path, nodeType) ==
    IF Len(path) = 1
    THEN [nodes |-> Append(nodes, mkNode(path[1], nodeType, group)), ok |-> TRUE]
    ELSE LET found == {i \in child(nodes, group) : nodes[i].Text = path[1]}
         IN  IF found # {} THEN addFirst(nodes, Min(found), Tail(path), nodeType)
             ELSE [nodes |-> nodes, ok |-> FALSE]

\* node.add: returns the new arena and whether the path resolved
RECURSIVE add(_, _, _, _)
add(nodes, group, path, nodeType) ==
    IF Len(path) = 1
    THEN [nodes |-> Append(nodes, mkNode(path[1], nodeType, group)), ok |-> TRUE]
    ELSE LET found == {i \in child(nodes, group) : nodes[i].Text = path[1]}
         IN  IF found # {} THEN add(nodes, Max(found), Tail(path), nodeType)
             ELSE [nodes |-> nodes, ok |-> FALSE]

\* Tree.Count / node.count
RECURSIVE count(_, _), countChildren(_, _)
\* mutant of count: the children are counted, not what is below them
countShallow(nodes, n) == Cardinality(child(nodes, n))

count(nodes, n) == countChildren(nodes, childSeq(nodes, n))

countChildren(nodes, cs) ==
    IF cs = <<>> THEN 0 ELSE 1 + count(nodes, cs[1]) + countChildren(nodes, Tail(cs))

----------------------------------------------------------------------------
(* parseInternal: the locals of the loop are the fields of a record; err is  *)
(* "" while no error has been returned. addErr records whether a root.add    *)
(* call returned the error that the parser ignores.                          *)

parseStart ==
    [root |-> <<>>, groupID |-> 0, stack |-> <<>>, collect |-> <<>>, err |-> "", addErr |-> FALSE]

fail(s, msg) == [s EXCEPT !.err = msg]

\* root.add(path, source, nodeType), its result ignored
rootAdd(s, path, nodeType) ==
    LET r == add(s.root, 0, path, nodeType)
    IN  [s EXCEPT !.root = r.nodes, !.addErr = s.addErr \/ ~ r.ok]

push(s, label) == [s EXCEPT !.stack = Append(s.stack, label)]

\* stack = append(stack, "[n"); root.add(stack, source, group)
openGroup(s) ==
    LET s1 == [s EXCEPT !.groupID = s.groupID + 1]
        s2 == push(s1, <<"[">> \o Dec(s1.groupID))
    IN  rootAdd(s2, s2.stack, "group")

\* mutant of onOpen: no dummy node is inserted between [ and [
onOpenNoDummy(s) ==
    IF s.collect = <<>> /\ Len(s.stack) = 0 THEN fail(s, "missing definition identifier")
    ELSE IF s.collect # <<>>
    THEN IF Len(s.stack) = 0 /\ \E i \in child(s.root, 0) : s.root[i].Text = s.collect
         THEN fail(s, "duplicate identifier")
         ELSE LET s1 == [push(s, s.collect) EXCEPT !.collect = <<>>]
                  s2 == IF Len(s1.stack) = 1 THEN rootAdd(s1, s1.stack, "tag")
                        ELSE rootAdd(s1, s1.stack, "text")
              IN  openGroup(s2)
    ELSE openGroup(s)

onOpen(s) ==
    IF s.collect = <<>> /\ Len(s.stack) = 0 THEN fail(s, "missing definition identifier")
    ELSE IF s.collect = <<>> /\ Len(s.stack) > 1 /\ Last(s.stack)[1] = "["
    THEN LET s1 == push(s, <<"/", "/">>)
         IN  openGroup(rootAdd(s1, s1.stack, "dummy"))
    ELSE IF s.collect # <<>>
    THEN IF Len(s.stack) = 0 /\ \E i \in child(s.root, 0) : s.root[i].Text = s.collect
         THEN fail(s, "duplicate identifier")
         ELSE LET s1 == [push(s, s.collect) EXCEPT !.collect = <<>>]
                  s2 == IF Len(s1.stack) = 1 THEN rootAdd(s1, s1.stack, "tag")
                        ELSE rootAdd(s1, s1.stack, "text")
              IN  openGroup(s2)
    ELSE openGroup(s)

\* "Unwind to the most recent group"
RECURSIVE unwind(_)
unwind(stack) ==
    IF stack = <<>> \/ Last(stack)[1] = "[" THEN stack
    ELSE unwind(SubSeq(stack, 1, Len(stack) - 1))

\* "pop anything that isn't a group open [ and stop after the first group open"
RECURSIVE popGroup(_)
popGroup(stack) ==
    IF stack = <<>> THEN stack
    ELSE IF Last(stack)[1] = "[" THEN SubSeq(stack, 1, Len(stack) - 1)
    ELSE popGroup(SubSeq(stack, 1, Len(stack) - 1))

flush(s) == [rootAdd(s, Append(s.stack, s.collect), "text") EXCEPT !.collect = <<>>]

onBar(s) ==
    IF Len(s.stack) = 0 THEN fail(s, "stray | at root level")
    ELSE IF s.collect = <<>> /\ Last(s.stack)[1] = "[" THEN fail(s, "stray | in group")
    ELSE LET s1 == IF Last(s.stack)[1] # "[" /\ s.collect # <<>> THEN flush(s) ELSE s
             s2 == [s1 EXCEPT !.stack = unwind(s1.stack)]
         IN  IF s2.stack = <<>> THEN fail(s2, "panic")
             ELSE IF s2.collect = <<>> /\ Last(s2.stack)[1] # "[" THEN fail(s2, "stray | in group")
             ELSE IF s2.collect # <<>> THEN flush(s2)
             ELSE s2

\* mutant of onClose: the empty group is not detected
onCloseLoose(s) ==
    IF s.collect = <<>> /\ Len(s.stack) = 0 THEN fail(s, "stray ]")
    ELSE LET s1 == IF s.collect # <<>> THEN flush(s) ELSE s
             popped == popGroup(s1.stack)
         IN  [s1 EXCEPT !.stack = IF Len(popped) = 1 THEN <<>> ELSE popped]

onClose(s) ==
    IF s.collect = <<>> /\ Len(s.stack) = 0 THEN fail(s, "stray ]")
    ELSE IF s.collect = <<>> /\ Len(s.stack) > 0 /\ Last(s.stack)[1] = "[" THEN fail(s, "empty group")
    ELSE LET s1 == IF s.collect # <<>> THEN flush(s) ELSE s
             popped == popGroup(s1.stack)
         IN  [s1 EXCEPT !.stack = IF Len(popped) = 1 THEN <<>> ELSE popped]

invalidInIdentifier == {"{", "}", "<", "*", "^"}

onWord(s, t) ==
    LET s1 == IF s.collect = <<>>
              THEN IF Len(s.stack) = 0 /\ \E i \in 1..Len(t) : t[i] \in invalidInIdentifier
                   THEN fail(s, "invalid character in identifier")
                   ELSE [s EXCEPT !.collect = t]
              ELSE IF Len(s.stack) = 0 THEN fail(s, "expecting [ after identifier")
              ELSE [s EXCEPT !.collect = s.collect \o <<" ">> \o t]
    IN  IF s1.err # "" THEN s1
        ELSE IF t[1] = "{" /\ Last(t) # "}" THEN fail(s1, "unterminated substitution")
        ELSE IF t[1] # "{" /\ Last(t) = "}" THEN fail(s1, "stray }")
        ELSE s1

\* one iteration of "for _, t := range token"
parseToken(s, t) ==
    IF t = <<>> THEN fail(s, "empty token")
    ELSE IF t = <<"[">> THEN onOpen(s)
    ELSE IF t = <<"|">> THEN onBar(s)
    ELSE IF t = <<"]">> THEN onClose(s)
    ELSE onWord(s, t)

\* mutant of parseEnd: the stack is not looked at
parseEndLoose(s) == s

\* "We're out of tokens; make sure the last group was closed properly"
parseEnd(s) == IF Len(s.stack) > 0 THEN fail(s, "unterminated [") ELSE s

RECURSIVE parseLoop(_, _)
parseLoop(s, toks) ==
    IF s.err # "" THEN s
    ELSE IF toks = <<>> THEN parseEnd(s)
    ELSE parseLoop(parseToken(s, toks[1]), Tail(toks))

parseInternal(toks) ==
    IF Len(toks) = 0 THEN fail(parseStart, "empty input") ELSE parseLoop(parseStart, toks)

\* Parse(grammar)
Parse(g) == parseInternal(tokenize(g))

\* ParseFiles, the files given by their contents: the tokens of all files are
\* appended to one slice, which is parsed once
RECURSIVE allTokens(_)
allTokens(fs) == IF fs = <<>> THEN <<>> ELSE tokenize(fs[1]) \o allTokens(Tail(fs))

----------------------------------------------------------------------------
(* Generate, compose and inflate. The random draws make a call's result a    *)
(* set of outcomes [part, err, used]: the string returned, the error (<<>>   *)
(* is nil, otherwise the message and the contexts wrapped around it) and the  *)
(* uniqueUsed map when the call returns. d bounds the depth of the           *)
(* Generate -> compose -> inflate -> Generate recursion; where the code       *)
(* would recurse deeper the outcome is the error "stack overflow".            *)

outcome(part, err, used) == [part |-> part, err |-> err, used |-> used]

lower == <<"a", "b", "c", "d", "e", "f", "g", "h", "i", "j", "k", "l", "m",
           "n", "o", "p", "q", "r", "s", "t", "u", "v", "w", "x", "y", "z">>

upper == <<"A", "B", "C", "D", "E", "F", "G", "H", "I", "J", "K", "L", "M",
           "N", "O", "P", "Q", "R", "S", "T", "U", "V", "W", "X", "Y", "Z">>

\* strings.ToUpper of one character
ToUpper(c) == IF \E i \in 1..26 : lower[i] = c THEN upper[CHOOSE i \in 1..26 : lower[i] = c] ELSE c

\* mutant of capitalize: a ^ at the end of the string is removed
RECURSIVE capitalizeDrop(_)
capitalizeDrop(part) ==
    LET p == Index(part, <<"^">>)
    IN  IF p = 0 THEN part
        ELSE IF p >= Len(part) THEN SubSeq(part, 1, p - 1)
        ELSE capitalizeDrop(SubSeq(part, 1, p - 1) \o <<ToUpper(part[p + 1])>> \o From(part, p + 2))

\* the "for p := strings.Index(part, "^")" loop of Generate
RECURSIVE capitalize(_)
capitalize(part) ==
    LET p == Index(part, <<"^">>)
    IN  IF p = 0 THEN part
        ELSE IF p >= Len(part) THEN part
        ELSE capitalize(SubSeq(part, 1, p - 1) \o <<ToUpper(part[p + 1])>> \o From(part, p + 2))

\* mutant of postProcess: the << markers are left alone
postProcessKeep(part) ==
    LET p4 == ReplaceAll(part, <<" ", "\n", " ">>, <<"\n">>)
        p5 == ReplaceAll(p4, <<" ", "\n">>, <<"\n">>)
        p6 == ReplaceAll(p5, <<"\n", " ">>, <<"\n">>)
        p7 == ReplaceAll(p6, <<"^", " ">>, <<"^">>)
    IN  capitalize(p7)

\* the post-processing of Generate down to the ^ loop
untilCapitalize(part) ==
    LET p1 == ReplaceAll(part, <<" ", "<", "<", " ">>, <<>>)
        p2 == ReplaceAll(p1, <<" ", "<", "<">>, <<>>)
        p3 == ReplaceAll(p2, <<"<", "<", " ">>, <<>>)
        p4 == ReplaceAll(p3, <<" ", "\n", " ">>, <<"\n">>)
        p5 == ReplaceAll(p4, <<" ", "\n">>, <<"\n">>)
        p6 == ReplaceAll(p5, <<"\n", " ">>, <<"\n">>)
    IN  ReplaceAll(p6, <<"^", " ">>, <<"^">>)

\* the post-processing of Generate
postProcess(part) == capitalize(untilCapitalize(part))

\* the substitutions map of compose
substitutions ==
    { <<<<" ", ")">>, <<")">>>>, <<<<"(", " ">>, <<"(">>>>, <<<<" ", ",">>, <<",">>>>,
      <<<<" ", ".">>, <<".">>>>, <<<<" ", "?">>, <<"?">>>>, <<<<" ", "!">>, <<"!">>>>,
      <<<<" ", ":">>, <<":">>>>, <<<<" ", ";">>, <<";">>>>,
      <<<<" ", "_", " ">>, <<" ">>>>, <<<<" ", "_">>, <<>>>>, <<<<"_", " ">>, <<>>>> }

\* "for from, to := range substitutions": Go ranges over a map in an
\* unspecified order, so every order of the entries is a possible result. No
\* replacement adds a character other than a space, so an entry whose
\* punctuation character is absent from ret applies in no order, and only the
\* orders of the other entries are enumerated.
punct(sub) == CHOOSE c \in {sub[1][i] : i \in 1..Len(sub[1])} : c # " "

RECURSIVE applyInAnyOrder(_, _)
applyInAnyOrder(ret, subs) ==
    IF subs = {} THEN {ret}
    ELSE UNION {applyInAnyOrder(ReplaceAll(ret, sub[1], sub[2]), subs \ {sub}) : sub \in subs}

tidy(ret) ==
    applyInAnyOrder(ret, {sub \in substitutions : \E i \in 1..Len(ret) : ret[i] = punct(sub)})

isDigit(c) == c \in {"0", "1", "2", "3", "4", "5", "6", "7", "8", "9"}

digitValue(c) == CHOOSE v \in 0..9 : Digit(v) = c

RECURSIVE atoi(_)
atoi(ds) == IF ds = <<>> THEN 0 ELSE atoi(SubSeq(ds, 1, Len(ds) - 1)) * 10 + digitValue(Last(ds))

\* the longest prefix of s that %d reads: an optional sign and decimal digits
RECURSIVE digitsPrefix(_)
digitsPrefix(s) == IF s # <<>> /\ isDigit(s[1]) THEN 1 + digitsPrefix(Tail(s)) ELSE 0

scanInt(s) ==
    LET signed == s # <<>> /\ s[1] \in {"+", "-"}
        body == IF signed THEN Tail(s) ELSE s
        n == digitsPrefix(body)
        v == atoi(SubSeq(body, 1, n))
    IN  [ok |-> n > 0, value |-> IF signed /\ s[1] = "-" THEN 0 - v ELSE v, rest |-> From(body, n + 1)]

\* fmt.Sscanf(replace, "{%d-%d}", &bottomBound, &topBound)
scanRange(replace) ==
    LET lo == scanInt(Tail(replace))
        hi == scanInt(Tail(lo.rest))
    IN  IF replace # <<>> /\ replace[1] = "{" /\ lo.ok /\ lo.rest # <<>> /\ lo.rest[1] = "-"
           /\ hi.ok /\ hi.rest = <<"}">>
        THEN [ok |-> TRUE, bottomBound |-> lo.value, topBound |-> hi.value]
        ELSE [ok |-> FALSE, bottomBound |-> 0, topBound |-> 0]

\* fmt.Sprintf("%d", n)
Itoa(n) == IF n < 0 THEN <<"-">> \o Dec(0 - n) ELSE Dec(n)

\* the scan of inflate: the first } that has a { before it, and the last {
\* before that }; <<0, 0>> when there is no such pair
findSequence(s) ==
    LET closes == {p \in 1..Len(s) : s[p] = "}" /\ \E q \in 1..(p - 1) : s[q] = "{"}
    IN  IF closes = {} THEN <<0, 0>>
        ELSE LET p == Min(closes)
             IN  <<Max({q \in 1..(p - 1) : s[q] = "{"}), p>>

RECURSIVE Generate(_, _, _, _), compose(_, _, _, _, _), composeChildren(_, _, _, _, _), inflate(_, _, _, _)

\* mutants of selectBranch: the first branch whatever the draw; the drawn
\* branch whatever is marked; the drawn branch when every branch is marked
selectBranchFirst(cs, pick, unique, used) == cs[1]

selectBranchAny(cs, pick, unique, used) == cs[(pick % Len(cs)) + 1]

selectBranchFallback(cs, pick, unique, used) ==
    LET opts == Len(cs)
        ok == {i \in 0..(opts - 1) : ~ unique \/ cs[((pick + i) % opts) + 1] \notin used}
    IN  IF ok = {} THEN cs[(pick % opts) + 1] ELSE cs[((pick + Min(ok)) % opts) + 1]

\* mutant of selectBranch: the scan runs backwards from the start offset
selectBranchBackward(cs, pick, unique, used) ==
    LET opts == Len(cs)
        ok == {i \in 0..(opts - 1) : ~ unique \/ cs[((pick + opts - i) % opts) + 1] \notin used}
    IN  IF ok = {} THEN 0 ELSE cs[((pick + opts - Min(ok)) % opts) + 1]

\* the branch a group selects for a random start offset pick: the first one in
\* circular order that is not marked (any one when unique is false); 0 when
\* every branch is marked
selectBranch(cs, pick, unique, used) ==
    LET opts == Len(cs)
        ok == {i \in 0..(opts - 1) : ~ unique \/ cs[((pick + i) % opts) + 1] \notin used}
    IN  IF ok = {} THEN 0 ELSE cs[((pick + Min(ok)) % opts) + 1]

\* mutant of mark: every selection is recorded
markAlways(unique, used, p) == used \cup {p}

\* "Only make it as exhausted it if we are actually requesting a unique substitution"
mark(unique, used, p) == IF unique THEN used \cup {p} ELSE used

compose(nodes, node, unique, used, d) ==
    IF nodes[node].internalType = "group"
    THEN LET cs == childSeq(nodes, node)
         IN  IF Len(cs) = 0 THEN {outcome(<<>>, <<"panic">>, used)}
             ELSE UNION { LET p == selectBranch(cs, pick, unique, used)
                          IN  IF p = 0 THEN {outcome(<<>>, <<"all options exhausted">>, used)}
                              ELSE compose(nodes, p, FALSE, mark(unique, used, p), d)
                          : pick \in 0..(Len(cs) - 1) }
    ELSE LET first == IF nodes[node].internalType = "text"
                      THEN { IF o.err # <<>> THEN outcome(<<>>, <<"from">> \o o.err, o.used)
                             ELSE outcome(<<o.part>>, <<>>, o.used)
                             : o \in inflate(nodes, nodes[node].Text, used, d) }
                      ELSE {outcome(<<>>, <<>>, used)}
         IN  UNION { IF o.err # <<>> THEN {o}
                     ELSE composeChildren(nodes, childSeq(nodes, node), o.part, o.used, d)
                     : o \in first }

\* "for i := range node.child", then the join and the clean-up
composeChildren(nodes, cs, collect, used, d) ==
    IF cs = <<>>
    THEN {outcome(ret, <<>>, used) : ret \in tidy(Join(collect, <<" ">>))}
    ELSE UNION { IF o.err # <<>> THEN {outcome(<<>>, o.err, o.used)}
                 ELSE composeChildren(nodes, Tail(cs), Append(collect, o.part), o.used, d)
                 : o \in compose(nodes, cs[1], FALSE, used, d) }

\* replaceWith for the span replace, and the error of the Generate call made
\* for a reference
replaceWith(nodes, replace, used, d) ==
    LET range == scanRange(replace)
        tag == SubSeq(replace, 2, Len(replace) - 1)
    IN  IF replace = <<"{", "\\", "n", "}">> THEN {outcome(<<"\n">>, <<>>, used)}
        ELSE IF range.ok
        THEN IF range.topBound - range.bottomBound + 1 <= 0
             THEN {outcome(<<>>, <<"panic">>, used)}
             ELSE {outcome(Itoa(n), <<>>, used) : n \in range.bottomBound..range.topBound}
        ELSE { IF o.err # <<>> THEN outcome(<<>>, o.err \o <<"(">> \o tag \o <<")">>, o.used) ELSE o
               : o \in Generate(nodes, used, tag, d - 1) }

\* s = s[0:sequenceOpen] + replaceWith + s[p+1:]
splice(s, sequenceOpen, p, with) == SubSeq(s, 1, sequenceOpen - 1) \o with \o From(s, p + 1)

\* mutant of inflate: a reference that Generate fails on is replaced by the
\* initial value of replaceWith
inflatePlaceholder(nodes, s, used, d) ==
    LET seq == findSequence(s)
        sequenceOpen == seq[1]
        p == seq[2]
        replace == SubSeq(s, sequenceOpen, p)
        range == scanRange(replace)
        tag == SubSeq(s, sequenceOpen + 1, p - 1)
        with == IF replace = <<"{", "\\", "n", "}">> THEN {outcome(<<"\n">>, <<>>, used)}
                ELSE IF range.ok
                THEN IF range.topBound - range.bottomBound + 1 <= 0
                     THEN {outcome(<<>>, <<"panic">>, used)}
                     ELSE {outcome(Itoa(n), <<>>, used) : n \in range.bottomBound..range.topBound}
                ELSE { IF o.err # <<>> THEN outcome(<<"(", "E", "R", "R", "O", "R", ")">>, <<>>, o.used) ELSE o
                       : o \in Generate(nodes, used, tag, d - 1) }
    IN  IF p = 0 THEN {outcome(s, <<>>, used)}
        ELSE UNION { IF o.err # <<>> THEN {outcome(<<>>, o.err, o.used)}
                     ELSE inflate(nodes, SubSeq(s, 1, sequenceOpen - 1) \o o.part \o From(s, p + 1), o.used, d)
                     : o \in with }

inflate(nodes, s, used, d) ==
    LET seq == findSequence(s)
        sequenceOpen == seq[1]
        p == seq[2]
    IN  IF p = 0 THEN {outcome(s, <<>>, used)}
        ELSE UNION { IF o.err # <<>> THEN {outcome(<<>>, o.err, o.used)}
                     ELSE inflate(nodes, splice(s, sequenceOpen, p, o.part), o.used, d)
                     : o \in replaceWith(nodes, SubSeq(s, sequenceOpen, p), used, d) }

\* mutant of Generate: the empty identifier is looked up like a name
GenerateNamedOnly(nodes, used, id0, d) ==
    LET top == childSeq(nodes, 0)
        unique == id0 # <<>> /\ id0[1] = "*"
        id == IF unique THEN Tail(id0) ELSE id0
        named == {n \in child(nodes, 0) : nodes[n].Text = id}
    IN  IF d = 0 THEN {outcome(<<>>, <<"stack overflow">>, used)}
        ELSE IF Len(top) = 0 THEN {outcome(<<>>, <<"empty tree">>, used)}
        ELSE IF named = {} THEN {outcome(<<>>, <<"no such definition">>, used)}
        ELSE IF child(nodes, Max(named)) = {}
        THEN {outcome(<<>>, <<"root identifier lacks children">>, used)}
        ELSE { IF o.err # <<>> THEN outcome(<<>>, o.err, o.used)
               ELSE outcome(postProcess(o.part), <<>>, o.used)
               : o \in compose(nodes, childSeq(nodes, Max(named))[1], unique, used, d) }

Generate(nodes, used, id0, d) ==
    LET top == childSeq(nodes, 0)
        unique == id0 # <<>> /\ id0[1] = "*"
        id == IF unique THEN Tail(id0) ELSE id0
        named == {n \in child(nodes, 0) : nodes[n].Text = id}
        node == IF id0 = <<>> THEN Last(top) ELSE childSeq(nodes, Max(named))[1]
    IN  IF d = 0 THEN {outcome(<<>>, <<"stack overflow">>, used)}
        ELSE IF Len(top) = 0 THEN {outcome(<<>>, <<"empty tree">>, used)}
        ELSE IF id0 # <<>> /\ named = {} THEN {outcome(<<>>, <<"no such definition">>, used)}
        ELSE IF id0 # <<>> /\ child(nodes, Max(named)) = {}
        THEN {outcome(<<>>, <<"root identifier lacks children">>, used)}
        ELSE { IF o.err # <<>> THEN outcome(<<>>, o.err, o.used)
               ELSE outcome(postProcess(o.part), <<>>, o.used)
               : o \in compose(nodes, node, unique, used, d) }

\* mutant of Reset: the map is kept
ResetKeep(used) == used

\* Tree.Reset
Reset(used) == {}

----------------------------------------------------------------------------
(* Bounds and inputs                                                         *)

\* depth of nested Generate calls explored
MaxDepth == 4

\* number of tokens read by parseInternal
MaxTokens == 8

\* length of a file's contents and number of files given to ParseFiles
MaxFileLen == 3

MaxFiles == 2

\* "a[b|c|d] e[{*a}{*a}{*a}] f[{*a}] g[{*a}{*a}{*a}{*a}]" (TestUniqueSubst)
GUnique ==
    <<"a", "[", "b", "|", "c", "|", "d", "]", " ",
      "e", "[", "{", "*", "a", "}", "{", "*", "a", "}", "{", "*", "a", "}", "]", " ",
      "f", "[", "{", "*", "a", "}", "]", " ",
      "g", "[", "{", "*", "a", "}", "{", "*", "a", "}", "{", "*", "a", "}", "{", "*", "a", "}", "]">>

\* "g [ h t | o [m | e] ]": the greeting example of the package documentation
GGreeting ==
    <<"g", " ", "[", " ", "h", " ", "t", " ", "|", " ", "o", " ", "[", "m", " ", "|", " ", "e", "]", " ", "]">>

\* "a[[b|c] d]" (TestGenerate)
GDummy == <<"a", "[", "[", "b", "|", "c", "]", " ", "d", "]">>

\* "a[b[x|y]c|d] e[f]": text after a nested group, two definitions
GPlain ==
    <<"a", "[", "b", "[", "x", "|", "y", "]", "c", "|", "d", "]", " ", "e", "[", "f", "]">>

\* "a[b[x|y]|c[x|y]] e[{*a} {a}] h[{a}]": groups nested beneath the top-level
\* branches, an exclusive and a plain reference
GNested ==
    <<"a", "[", "b", "[", "x", "|", "y", "]", "|", "c", "[", "x", "|", "y", "]", "]", " ",
      "e", "[", "{", "*", "a", "}", " ", "{", "a", "}", "]", " ",
      "h", "[", "{", "a", "}", "]">>

Catalogue == {GUnique, GGreeting, GDummy, GPlain, GNested}

\* the identifiers passed to Generate
Ids ==
    { <<>>, <<"a">>, <<"*", "a">>, <<"e">>, <<"*", "e">>, <<"f">>, <<"g">>, <<"*", "g">>,
      <<"h">>, <<"z">> }

\* the tokens parseInternal reads
Alphabet == { <<"[">>, <<"|">>, <<"]">>, <<"a">>, <<"b">> }

\* the characters of a file
FileChars == {"a", "[", "|", "]"}

FileContents == UNION {[1..n -> FileChars] : n \in 0..MaxFileLen}

----------------------------------------------------------------------------
(* The program: a grammar is parsed, then Generate and Reset are called on   *)
(* the tree in any order. op records the last call, what it returned and the *)
(* uniqueUsed map it started from.                                           *)

call(name, id, part, err, before) ==
    [name |-> name, id |-> id, part |-> part, err |-> err, before |-> before]

Init ==
    /\ grammar \in Catalogue
    /\ files = <<>>
    /\ token = <<>>
    /\ pos = 0
    /\ st = parseStart
    /\ uniqueUsed = {}
    /\ op = call("init", <<>>, <<>>, <<>>, {})

\* tree, err := Parse(grammar); on success parseInternal ends with tree.Reset()
DoParse ==
    /\ op.name = "init"
    /\ st' = Parse(grammar)
    /\ uniqueUsed' = Reset(uniqueUsed)
    /\ op' = call("Parse", <<>>, <<>>, IF st'.err = "" THEN <<>> ELSE <<st'.err>>, uniqueUsed)
    /\ UNCHANGED <<grammar, files, token, pos>>

ready == op.name \in {"Parse", "Generate", "Reset"} /\ st.err = ""

\* mutant of DoGenerate: a failed call restores the map
DoGenerateRollback ==
    /\ ready
    /\ \E id \in Ids : \E o \in Generate(st.root, uniqueUsed, id, MaxDepth) :
          /\ uniqueUsed' = IF o.err # <<>> THEN uniqueUsed ELSE o.used
          /\ op' = call("Generate", id, o.part, o.err, uniqueUsed)
    /\ UNCHANGED <<grammar, files, token, pos, st>>

\* out, err := tree.Generate(id)
DoGenerate ==
    /\ ready
    /\ \E id \in Ids : \E o \in Generate(st.root, uniqueUsed, id, MaxDepth) :
          /\ uniqueUsed' = o.used
          /\ op' = call("Generate", id, o.part, o.err, uniqueUsed)
    /\ UNCHANGED <<grammar, files, token, pos, st>>

\* tree.Reset()
DoReset ==
    /\ ready
    /\ uniqueUsed' = Reset(uniqueUsed)
    /\ op' = call("Reset", <<>>, <<>>, <<>>, uniqueUsed)
    /\ UNCHANGED <<grammar, files, token, pos, st>>

Next == DoParse \/ DoGenerate \/ DoReset

Spec == Init /\ [][Next]_vars

----------------------------------------------------------------------------
(* parseInternal token by token: token is the input read so far, pos the     *)
(* number of loop iterations made, st the locals of the loop.                *)

InitParse ==
    /\ grammar = <<>>
    /\ files = <<>>
    /\ token = <<>>
    /\ pos = 0
    /\ st = parseStart
    /\ uniqueUsed = {}
    /\ op = call("parseInternal", <<>>, <<>>, <<>>, {})

\* one iteration of the loop, for any next token; an error returns at once
ReadToken ==
    /\ op.name = "parseInternal"
    /\ pos < MaxTokens
    /\ \E t \in Alphabet :
          /\ token' = Append(token, t)
          /\ st' = parseToken(st, t)
    /\ pos' = pos + 1
    /\ op' = IF st'.err = "" THEN op ELSE call("returned", <<>>, <<>>, <<st'.err>>, {})
    /\ UNCHANGED <<grammar, files, uniqueUsed>>

\* the input ends: the check after the loop (for no token at all, the check
\* before it), then tree.Reset() and the return
EndOfInput ==
    /\ op.name = "parseInternal"
    /\ st' = IF Len(token) = 0 THEN fail(st, "empty input") ELSE parseEnd(st)
    /\ uniqueUsed' = Reset(uniqueUsed)
    /\ op' = call("returned", <<>>, <<>>, IF st'.err = "" THEN <<>> ELSE <<st'.err>>, {})
    /\ UNCHANGED <<grammar, files, token, pos>>

NextParse == ReadToken \/ EndOfInput

SpecParse == InitParse /\ [][NextParse]_vars

----------------------------------------------------------------------------
(* ParseFiles on one or several files, given by their contents               *)

InitFiles ==
    /\ grammar = <<>>
    /\ files \in UNION {[1..n -> FileContents] : n \in 1..MaxFiles}
    /\ token = <<>>
    /\ pos = 0
    /\ st = parseStart
    /\ uniqueUsed = {}
    /\ op = call("init", <<>>, <<>>, <<>>, {})

DoParseFiles ==
    /\ op.name = "init"
    /\ token' = allTokens(files)
    /\ st' = parseInternal(token')
    /\ pos' = Len(token')
    /\ uniqueUsed' = Reset(uniqueUsed)
    /\ op' = call("ParseFiles", <<>>, <<>>, IF st'.err = "" THEN <<>> ELSE <<st'.err>>, {})
    /\ UNCHANGED <<grammar, files>>

NextFiles == DoParseFiles

SpecFiles == InitFiles /\ [][NextFiles]_vars

\* the two renderings of parseInternal agree
StepwiseAgrees == op.name = "returned" => st = parseInternal(token)

----------------------------------------------------------------------------
(* Vocabulary of the properties                                              *)

\* the Tag node of the definition named id ("" names the last definition)
tagOf(nodes, id) ==
    IF id = <<>> THEN Max(child(nodes, 0))
    ELSE Max({n \in child(nodes, 0) : nodes[n].Text = id})

defined(nodes, id) ==
    IF id = <<>> THEN child(nodes, 0) # {}
    ELSE \E n \in child(nodes, 0) : nodes[n].Text = id

\* the branches of the top-level group of a definition
topBranches(nodes, id) == UNION {child(nodes, g) : g \in child(nodes, tagOf(nodes, id))}

\* every branch of every top-level group of the tree
allTopBranches(nodes) == UNION {UNION {child(nodes, g) : g \in child(nodes, t)} : t \in child(nodes, 0)}

isLeaf(nodes, n) == child(nodes, n) = {}

plainChars == {lower[i] : i \in 1..26} \cup {" "}

plainText(text) == \A i \in 1..Len(text) : text[i] \in plainChars

\* a grammar whose text nodes contain only plain words
plainTree(nodes) ==
    \A n \in 1..Len(nodes) : nodes[n].internalType = "text" => plainText(nodes[n].Text)

\* the texts of the Text nodes met on the depth-first traversals of node n
\* that take one branch of every Group, in declaration order
RECURSIVE walks(_, _), walksOfAll(_, _)
walks(nodes, n) ==
    IF nodes[n].internalType = "group" THEN UNION {walks(nodes, c) : c \in child(nodes, n)}
    ELSE LET own == IF nodes[n].internalType = "text" THEN <<nodes[n].Text>> ELSE <<>>
         IN  {own \o w : w \in walksOfAll(nodes, childSeq(nodes, n))}

walksOfAll(nodes, cs) ==
    IF cs = <<>> THEN {<<>>}
    ELSE {w1 \o w2 : w1 \in walks(nodes, cs[1]), w2 \in walksOfAll(nodes, Tail(cs))}

\* the phrases of the traversals of a definition
phrases(nodes, id) == {Join(w, <<" ">>) : w \in walks(nodes, tagOf(nodes, id))}

exclusive(id) == id # <<>> /\ id[1] = "*"

bare(id) == IF exclusive(id) THEN Tail(id) ELSE id

\* the number of occurrences of p in s
RECURSIVE occurrences(_, _)
occurrences(s, p) ==
    LET i == Index(s, p)
    IN  IF i = 0 THEN 0 ELSE 1 + occurrences(From(s, i + Len(p)), p)

\* a definition whose body is one text without groups
straight(nodes, id) ==
    /\ defined(nodes, id)
    /\ Cardinality(topBranches(nodes, id)) = 1
    /\ \A b \in topBranches(nodes, id) : isLeaf(nodes, b) /\ nodes[b].internalType = "text"

\* the text of a straight definition
bodyText(nodes, id) == nodes[CHOOSE b \in topBranches(nodes, id) : TRUE].Text

\* an identifier whose top-level group has only plain-text branches
plainChoice(nodes, id) ==
    /\ defined(nodes, id)
    /\ \A b \in topBranches(nodes, id) :
          isLeaf(nodes, b) /\ nodes[b].internalType = "text" /\ plainText(nodes[b].Text)

\* the number of exclusive selections of the identifier a that Generate(id) asks for:
\* one for "*a" itself, one for each {*a} in the text of a straight definition
requests(nodes, id, a) ==
    IF id = <<"*">> \o a THEN 1
    ELSE IF ~ exclusive(id) /\ straight(nodes, id)
    THEN occurrences(bodyText(nodes, id), <<"{", "*">> \o a \o <<"}">>)
    ELSE 0

\* the words of a phrase
words(part) == IF part = <<>> THEN <<>> ELSE Split(part, " ")

textsOf(nodes, S) == {nodes[n].Text : n \in S}

exhausted(err) == \E i \in 1..Len(err) : err[i] = "all options exhausted"

calledGenerate == op.name = "Generate"

\* the names of the definitions
names(nodes) == {nodes[t].Text : t \in child(nodes, 0)}

RECURSIVE subtree(_, _)
subtree(nodes, n) == {n} \cup UNION {subtree(nodes, c) : c \in child(nodes, n)}

\* the texts of the Text nodes of a definition
textsUnder(nodes, id) ==
    {nodes[n].Text : n \in {m \in subtree(nodes, tagOf(nodes, id)) : nodes[m].internalType = "text"}}

\* a definition that asks for no exclusive selection, neither itself nor
\* through the definitions it refers to
RECURSIVE quiet(_, _, _)
quiet(nodes, id, d) ==
    /\ defined(nodes, id)
    /\ \A text \in textsUnder(nodes, id) :
          /\ ~ Contains(text, <<"{", "*">>)
          /\ ~ Contains(text, <<"{", "}">>)
          /\ \A x \in names(nodes) :
                Contains(text, <<"{">> \o x \o <<"}">>) => d > 0 /\ quiet(nodes, x, d - 1)

----------------------------------------------------------------------------
(* C1: on a grammar of plain words, Generate(id) returns the texts of the    *)
(* Text nodes of one traversal of id's body that takes one branch of every   *)
(* group, in declaration order, joined by single spaces (so no tag name,     *)
(* group label or dummy "//" is in it), and every such traversal is a        *)
(* possible result; the greeting example yields its three phrases.           *)
C1_Theorem ==
    /\ ready /\ plainTree(st.root) =>
          \A id \in Ids : defined(st.root, bare(id)) =>
             LET outs == Generate(st.root, uniqueUsed, id, MaxDepth)
             IN  /\ \A o \in outs : o.err = <<>> => o.part \in phrases(st.root, bare(id))
                 /\ ~ exclusive(id) =>
                       /\ \A o \in outs : o.err = <<>>
                       /\ {o.part : o \in outs} = phrases(st.root, id)
    /\ calledGenerate /\ plainTree(st.root) /\ op.err = <<>> =>
          /\ op.part \in phrases(st.root, bare(op.id))
          /\ \A i \in 1..Len(op.part) : op.part[i] \notin {"[", "/"}
          /\ ~ Contains(op.part, <<" ", " ">>)
    /\ ready /\ grammar = GGreeting =>
          {o.part : o \in Generate(st.root, uniqueUsed, <<"g">>, MaxDepth)}
             = { <<"h", " ", "t">>, <<"o", " ", "m">>, <<"o", " ", "e">> }

\* Generate returned the phrase of a traversal through the nested group
C1_Witness ==
    calledGenerate /\ grammar = GGreeting /\ op.id = <<"g">> /\ op.part = <<"o", " ", "e">>

(* C2: from a freshly parsed or Reset tree (no marks), exclusive selections  *)
(* of an identifier with n plain-text branches, by Generate("*id") or by     *)
(* {*id} references, succeed as long as no more than n have been asked for,  *)
(* and each marks and returns a branch not selected before; when n have been *)
(* asked for every branch is marked.                                         *)
C2_Theorem ==
    /\ op.name \in {"Parse", "Reset"} => uniqueUsed = {}
    /\ calledGenerate =>
          \A a \in names(st.root) :
             LET top == topBranches(st.root, a)
                 k == requests(st.root, op.id, a)
                 new == uniqueUsed \ op.before
             IN  plainChoice(st.root, a) /\ k > 0 /\ Cardinality(op.before \cap top) + k <= Cardinality(top) =>
                    /\ op.err = <<>>
                    /\ op.before \subseteq uniqueUsed
                    /\ new \subseteq top
                    /\ Cardinality(new) = k
                    /\ Len(words(op.part)) = k
                    /\ {words(op.part)[i] : i \in 1..k} = textsOf(st.root, new)
                    /\ (Cardinality(op.before \cap top) + k = Cardinality(top) => top \subseteq uniqueUsed)

\* one call made three exclusive selections on a tree without marks
C2_Witness ==
    /\ calledGenerate /\ grammar = GUnique /\ op.id = <<"e">> /\ op.before = {}
    /\ op.err = <<>>
    /\ uniqueUsed = topBranches(st.root, <<"a">>)

(* C3: marks persist from one Generate call to the next, and once every      *)
(* top-level branch of an identifier is marked, every Generate call that     *)
(* asks for an exclusive selection of it, directly or by a {*id} reference,  *)
(* returns the 'all options exhausted' error and no phrase.                  *)
C3_Theorem ==
    /\ calledGenerate => op.before \subseteq uniqueUsed
    /\ ready =>
          \A a \in names(st.root) :
             LET top == topBranches(st.root, a)
             IN  top # {} /\ top \subseteq uniqueUsed =>
                    \A id \in Ids : requests(st.root, id, a) > 0 =>
                       \A o \in Generate(st.root, uniqueUsed, id, MaxDepth) :
                          exhausted(o.err) /\ o.part = <<>>
    /\ calledGenerate =>
          \A a \in names(st.root) :
             LET top == topBranches(st.root, a)
             IN  top # {} /\ top \subseteq op.before /\ requests(st.root, op.id, a) > 0 =>
                    exhausted(op.err) /\ op.part = <<>>

\* a {*a} reference was evaluated when all branches of a were marked
C3_Witness ==
    /\ calledGenerate /\ grammar = GUnique /\ op.id = <<"f">>
    /\ topBranches(st.root, <<"a">>) \subseteq op.before
    /\ exhausted(op.err)

(* C4: Reset empties the exclusivity set and leaves the tree as parsed, so   *)
(* that every Generate call has the outcomes it has on a freshly parsed      *)
(* tree; a second Reset changes nothing.                                     *)
C4_Theorem ==
    /\ ready => st = Parse(grammar)
    /\ op.name = "Reset" =>
          /\ uniqueUsed = {}
          /\ Reset(uniqueUsed) = uniqueUsed
          /\ \A id \in Ids :
                Generate(st.root, uniqueUsed, id, MaxDepth)
                   = Generate(Parse(grammar).root, {}, id, MaxDepth)

\* Reset was called on a tree with all branches of a marked
C4_Witness ==
    /\ op.name = "Reset" /\ grammar = GUnique
    /\ op.before = topBranches(st.root, <<"a">>)
    /\ uniqueUsed = {}

(* C5: a Generate call that fails leaves the tree unchanged and keeps every  *)
(* mark, those made before the call and those made in it before the failure: *)
(* after a failed call that asked for exclusive selections of an identifier  *)
(* all its branches are marked, and Generate("*a") fails after the failure   *)
(* of Generate("g").                                                         *)
C5_Theorem ==
    calledGenerate /\ op.err # <<>> =>
       /\ st = Parse(grammar)
       /\ op.before \subseteq uniqueUsed
       /\ \A a \in names(st.root) :
             plainChoice(st.root, a) /\ requests(st.root, op.id, a) > 0 /\ exhausted(op.err) =>
                topBranches(st.root, a) \subseteq uniqueUsed
       /\ grammar = GUnique /\ op.id = <<"g">> =>
             \A o \in Generate(st.root, uniqueUsed, <<"*", "a">>, MaxDepth) : exhausted(o.err)

\* Generate("g") failed on a tree without marks and left three
C5_Witness ==
    /\ calledGenerate /\ grammar = GUnique /\ op.id = <<"g">> /\ op.before = {}
    /\ op.err # <<>>
    /\ uniqueUsed = topBranches(st.root, <<"a">>)

(* C6: only branches of top-level groups are ever marked; a Generate call    *)
(* that asks for no exclusive selection succeeds whatever is marked and      *)
(* leaves the set unchanged; a successful Generate("*id") on a definition    *)
(* without exclusive references adds exactly one entry, the top-level branch *)
(* it chose, and a definition with one {*id} reference adds exactly one.     *)
C6_Theorem ==
    /\ ready => uniqueUsed \subseteq allTopBranches(st.root)
    /\ calledGenerate /\ ~ exclusive(op.id) /\ quiet(st.root, op.id, MaxDepth) =>
          op.err = <<>> /\ uniqueUsed = op.before
    /\ calledGenerate /\ exclusive(op.id) /\ quiet(st.root, bare(op.id), MaxDepth) /\ op.err = <<>> =>
          \E p \in topBranches(st.root, bare(op.id)) \ op.before :
             /\ uniqueUsed = op.before \cup {p}
             /\ st.root[p].internalType = "text" => HasPrefixAt(op.part, 1, st.root[p].Text)
    /\ calledGenerate /\ op.err = <<>> =>
          \A a \in names(st.root) :
             quiet(st.root, a, MaxDepth) /\ requests(st.root, op.id, a) = 1 =>
                Cardinality(uniqueUsed \ op.before) = 1

\* a plain reference was evaluated with every branch of a marked
C6_Witness ==
    /\ calledGenerate /\ grammar = GNested /\ op.id = <<"h">>
    /\ op.before = topBranches(st.root, <<"a">>)
    /\ op.err = <<>>

----------------------------------------------------------------------------
(* Vocabulary of the properties of the parser                                *)

returned == op.name = "returned"

accepted == returned /\ st.err = ""

\* an empty group or an empty branch: [ before ] or |, or | before | or ]
emptyPair(x, y) ==
    \/ x = <<"[">> /\ y \in {<<"]">>, <<"|">>}
    \/ x = <<"|">> /\ y \in {<<"|">>, <<"]">>}

hasEmptyBranch(toks) == \E i \in 1..(Len(toks) - 1) : emptyPair(toks[i], toks[i + 1])

\* the locals of the loop after the tokens toks
RECURSIVE readAll(_, _)
readAll(s, toks) ==
    IF s.err # "" \/ toks = <<>> THEN s ELSE readAll(parseToken(s, toks[1]), Tail(toks))

\* a ] arrives while the path stack is empty
strayClose(toks) ==
    \E i \in 1..Len(toks) :
       /\ toks[i] = <<"]">>
       /\ LET s == readAll(parseStart, SubSeq(toks, 1, i - 1))
          IN  s.err = "" /\ s.stack = <<>>

\* the number of [ of toks that no ] has closed
RECURSIVE openGroups(_)
openGroups(toks) ==
    IF toks = <<>> THEN 0
    ELSE LET before == openGroups(SubSeq(toks, 1, Len(toks) - 1))
         IN  IF Last(toks) = <<"[">> THEN before + 1
             ELSE IF Last(toks) = <<"]">> /\ before > 0 THEN before - 1
             ELSE before

(* C7: a token stream with an empty group or an empty branch, at any depth,  *)
(* is rejected: after [ followed by ] or |, or | followed by | or ], the     *)
(* parse has failed, and in an accepted tree every group has a branch, each  *)
(* a Text node or a Dummy node that holds a group.                           *)
C7_Theorem ==
    /\ hasEmptyBranch(token) => st.err # ""
    /\ accepted =>
          \A n \in 1..Len(st.root) : st.root[n].internalType = "group" =>
             /\ child(st.root, n) # {}
             /\ \A c \in child(st.root, n) :
                   /\ st.root[c].internalType \in {"text", "dummy"}
                   /\ st.root[c].internalType = "dummy" => child(st.root, c) # {}

\* an empty group two levels deep was rejected
C7_Witness ==
    returned /\ st.err = "empty group" /\ Len(st.stack) >= 4 /\ hasEmptyBranch(token)

(* C8: a token stream in which a ] arrives while the path stack is empty is  *)
(* rejected, whether or not text is pending, and every child of the root of  *)
(* an accepted tree is a Tag.                                                *)
C8_Claim ==
    /\ returned /\ strayClose(token) => st.err # ""
    /\ accepted => \A n \in child(st.root, 0) : st.root[n].internalType = "tag"

(* C9: a token stream that ends while a [ is open, at any depth and whatever *)
(* text is pending, is rejected: the path stack is non-empty exactly when a  *)
(* [ is open, and the end of input with a non-empty stack is the             *)
(* 'unterminated [' error.                                                   *)
C9_Theorem ==
    /\ st.err = "" => (Len(st.stack) > 0 <=> openGroups(token) > 0)
    /\ returned /\ openGroups(token) > 0 => st.err # ""
    /\ returned /\ Len(st.stack) > 0 => st.err # ""

\* the input ended two groups deep with text pending
C9_Witness ==
    returned /\ st.err = "unterminated [" /\ openGroups(token) >= 2 /\ st.collect # <<>>

\* the errors of a source that is not complete on its own
incomplete == {"unterminated [", "stray ]", "stray | at root level", "stray | in group"}

(* C10: ParseFiles fails when one of the files, parsed alone, has an         *)
(* unterminated group or a stray ] or |.                                     *)
C10_Claim ==
    op.name = "ParseFiles" /\ (\E i \in 1..Len(files) : Parse(files[i]).err \in incomplete) =>
       st.err # ""

----------------------------------------------------------------------------
(* Generate on the trees of grammars read token by token: parseInternal has  *)
(* read the tokens of one of the opening texts below and reads up to         *)
(* MaxWords further tokens; Generate is then called on the tree returned.    *)

\* number of further tokens read
MaxWords == 3

\* nothing, "a [", "a [ b | c ] e [", "a [ {e} ] e [", "a [ b ] e [" and
\* "a [ << b ] e ["
Openings ==
    { <<>>,
      <<<<"a">>, <<"[">>>>,
      <<<<"a">>, <<"[">>, <<"b">>, <<"|">>, <<"c">>, <<"]">>, <<"e">>, <<"[">>>>,
      <<<<"a">>, <<"[">>, <<"{", "e", "}">>, <<"]">>, <<"e">>, <<"[">>>>,
      <<<<"a">>, <<"[">>, <<"b">>, <<"]">>, <<"e">>, <<"[">>>>,
      <<<<"a">>, <<"[">>, <<"<", "<">>, <<"b">>, <<"]">>, <<"e">>, <<"[">>>> }

\* the further tokens
Words ==
    { <<"[">>, <<"|">>, <<"]">>, <<"x">>, <<"{", "a", "}">>, <<"{", "*", "a", "}">>,
      <<"{", "e", "}">>, <<"{", "z", "}">>, <<"{", "}">>, <<"^">>, <<"<", "<">> }

\* the identifiers passed to Generate
IdsGen == { <<>>, <<"a">>, <<"*", "a">>, <<"e">>, <<"z">>, <<"*">> }

InitGen ==
    /\ grammar = <<>>
    /\ files = <<>>
    /\ token \in Openings
    /\ pos = 0
    /\ st = readAll(parseStart, token)
    /\ uniqueUsed = {}
    /\ op = call("parseInternal", <<>>, <<>>, <<>>, {})

\* one iteration of the loop, for any next token; an error returns at once
ReadWord ==
    /\ op.name = "parseInternal"
    /\ pos < MaxWords
    /\ \E t \in Words :
          /\ token' = Append(token, t)
          /\ st' = parseToken(st, t)
    /\ pos' = pos + 1
    /\ op' = IF st'.err = "" THEN op ELSE call("returned", <<>>, <<>>, <<st'.err>>, {})
    /\ UNCHANGED <<grammar, files, uniqueUsed>>

\* out, err := tree.Generate(id) on the tree that parseInternal returned
GenerateParsed ==
    /\ op.name \in {"returned", "Generate"}
    /\ st.err = ""
    /\ \E id \in IdsGen : \E o \in Generate(st.root, uniqueUsed, id, MaxDepth) :
          /\ uniqueUsed' = o.used
          /\ op' = call("Generate", id, o.part, o.err, uniqueUsed)
    /\ UNCHANGED <<grammar, files, token, pos, st>>

NextGen == ReadWord \/ EndOfInput \/ GenerateParsed

SpecGen == InitGen /\ [][NextGen]_vars

----------------------------------------------------------------------------
(* Vocabulary of the properties of references                                *)

\* the tree that parseInternal returned without error
parsed == op.name \in {"returned", "Generate"} /\ st.err = ""

\* the tags of the complete {...} spans of a text
spanTags(text) ==
    { SubSeq(text, i + 1, j - 1) : <<i, j>> \in
        { ij \in (1..Len(text)) \X (1..Len(text)) :
            /\ ij[1] < ij[2] /\ text[ij[1]] = "{" /\ text[ij[2]] = "}"
            /\ \A k \in (ij[1] + 1)..(ij[2] - 1) : text[k] \notin {"{", "}"} } }

isNewline(tag) == tag = <<"\\", "n">>

rangeOf(tag) == scanRange(<<"{">> \o tag \o <<"}">>)

\* a span that refers to a definition
isReference(tag) == ~ isNewline(tag) /\ ~ rangeOf(tag).ok

\* the top-level node that Generate(tag) starts from, if any
target(nodes, tag) ==
    IF tag = <<>> THEN (IF child(nodes, 0) = {} THEN {} ELSE {Max(child(nodes, 0))})
    ELSE LET named == {n \in child(nodes, 0) : nodes[n].Text = bare(tag)}
         IN  IF named = {} THEN {} ELSE {Max(named)}

textNodes(nodes, t) == {m \in subtree(nodes, t) : nodes[m].internalType = "text"}

\* the top-level nodes that the texts of top-level node t refer to
refsOf(nodes, t) ==
    UNION { UNION { target(nodes, tag) : tag \in {x \in spanTags(nodes[m].Text) : isReference(x)} }
            : m \in textNodes(nodes, t) }

\* the top-level nodes reached from those of S by k or fewer references
RECURSIVE reaches(_, _, _)
reaches(nodes, S, k) ==
    IF k = 0 THEN S
    ELSE reaches(nodes, S \cup UNION {refsOf(nodes, t) : t \in S}, k - 1)

\* no definition refers to itself, directly or through others
acyclic(nodes) ==
    \A t \in child(nodes, 0) :
       t \notin reaches(nodes, refsOf(nodes, t), Cardinality(child(nodes, 0)))

\* every span is {\n}, a range that is not empty, or a reference without * to
\* a definition that has a body
allResolve(nodes) ==
    \A m \in 1..Len(nodes) : nodes[m].internalType = "text" =>
       \A tag \in spanTags(nodes[m].Text) :
          \/ isNewline(tag)
          \/ rangeOf(tag).ok /\ rangeOf(tag).topBound - rangeOf(tag).bottomBound + 1 > 0
          \/ /\ isReference(tag) /\ ~ exclusive(tag)
             /\ target(nodes, tag) # {}
             /\ tag # <<>> => \A t \in target(nodes, tag) : child(nodes, t) # {}

(* C11 as stated: on every accepted tree with at least one top-level         *)
(* definition and no cycle of references, Generate("") returns no error.     *)
C11_Claim ==
    calledGenerate /\ op.id = <<>> /\ child(st.root, 0) # {} /\ acyclic(st.root) =>
       op.err = <<>>

(* C11: on every accepted tree with at least one top-level definition, no    *)
(* cycle of references, and whose {...} spans are each {\n}, a non-empty     *)
(* range or a reference without * to a definition with a body, every         *)
(* outcome of Generate("") is a string and no error, whatever is marked.     *)
C11_Theorem ==
    parsed /\ child(st.root, 0) # {} /\ acyclic(st.root) /\ allResolve(st.root) =>
       /\ \A o \in Generate(st.root, uniqueUsed, <<>>, MaxDepth) : o.err = <<>>
       /\ calledGenerate /\ op.id = <<>> => op.err = <<>>

\* Generate("") succeeded on a two-definition tree whose last definition
\* refers to the first
C11_Witness ==
    /\ calledGenerate /\ op.id = <<>> /\ op.err = <<>>
    /\ acyclic(st.root) /\ allResolve(st.root)
    /\ Cardinality(child(st.root, 0)) = 2
    /\ refsOf(st.root, Max(child(st.root, 0))) = {Min(child(st.root, 0))}

----------------------------------------------------------------------------
(* Vocabulary of the properties of the nodes of a parsed tree                *)

isWord(t) == t \notin {<<"[">>, <<"|">>, <<"]">>}

\* the number of [ open before token i
depthAt(toks, i) == openGroups(SubSeq(toks, 1, i - 1))

\* the [ tokens
opens(toks) == {i \in 1..Len(toks) : toks[i] = <<"[">>}

\* the [ tokens that open a definition
tagOpens(toks) == {i \in opens(toks) : depthAt(toks, i) = 0}

\* the [ tokens that follow, with no text between, the [ or a | of the group
\* enclosing them
dummyOpens(toks) ==
    {i \in opens(toks) : depthAt(toks, i) > 0 /\ toks[i - 1] \in {<<"[">>, <<"|">>}}

\* the last words of the spans of text that are flushed: the spans inside a
\* group, and a span outside every group that a ] ends
spanEnds(toks) ==
    {i \in 1..Len(toks) :
        /\ isWord(toks[i])
        /\ i = Len(toks) \/ ~ isWord(toks[i + 1])
        /\ depthAt(toks, i) > 0 \/ (i < Len(toks) /\ toks[i + 1] = <<"]">>)}

ofType(nodes, type) == {n \in 1..Len(nodes) : nodes[n].internalType = type}

\* Tree.Count() of a grammar
countOf(g) == count(Parse(g).root, 0)

(* C12: after a successful parse Count() is the number of nodes below the    *)
(* root: one Tag per [ that opens a definition, one Group per [, one Dummy   *)
(* per [ that directly follows the [ or a | of its enclosing group, and one  *)
(* Text per flushed span of words; "a[[b]]" has 5 nodes, "a[[b]c]" 6 and     *)
(* "a[b|c|d]" 5.                                                             *)
C12_Theorem ==
    /\ accepted =>
          /\ count(st.root, 0) = Len(st.root)
          /\ Cardinality(ofType(st.root, "tag")) = Cardinality(tagOpens(token))
          /\ Cardinality(ofType(st.root, "group")) = Cardinality(opens(token))
          /\ Cardinality(ofType(st.root, "dummy")) = Cardinality(dummyOpens(token))
          /\ Cardinality(ofType(st.root, "text")) = Cardinality(spanEnds(token))
          /\ count(st.root, 0) = Cardinality(tagOpens(token)) + Cardinality(opens(token))
                                    + Cardinality(dummyOpens(token)) + Cardinality(spanEnds(token))
    /\ accepted /\ token = tokenize(<<"a", "[", "[", "b", "]", "]">>) => count(st.root, 0) = 5
    /\ countOf(<<"a", "[", "[", "b", "]", "]">>) = 5
    /\ countOf(<<"a", "[", "[", "b", "]", "c", "]">>) = 6
    /\ countOf(<<"a", "[", "b", "|", "c", "|", "d", "]">>) = 5

\* "a[[b]a]" was parsed: a Tag, two Groups, a Dummy and two Texts
C12_Witness ==
    /\ accepted /\ count(st.root, 0) = 6
    /\ Cardinality(ofType(st.root, "dummy")) = 1
    /\ Cardinality(ofType(st.root, "text")) = 2

----------------------------------------------------------------------------
(* Vocabulary of the properties of the identifier of Generate               *)

\* the definitions of a tree: the Tag nodes below the root
definitions(nodes) == {t \in child(nodes, 0) : nodes[t].internalType = "tag"}

\* the definitions named as id names them, a leading * stripped
definitionsNamed(nodes, id) == {t \in definitions(nodes) : nodes[t].Text = bare(id)}

failed(o) == o.err # <<>> /\ o.part = <<>>

\* the results of Generate on the tree as it is
results(id) == Generate(st.root, uniqueUsed, id, MaxDepth)

\* Generate resolves identifiers among the definitions of the tree
resolvesAmong(nodes, used) ==
    /\ definitions(nodes) = {} =>
          \A id \in IdsGen : \A o \in Generate(nodes, used, id, MaxDepth) : failed(o)
    /\ definitions(nodes) # {} =>
          Generate(nodes, used, <<>>, MaxDepth)
             = Generate(nodes, used, nodes[Max(definitions(nodes))].Text, MaxDepth)
    /\ \A id \in IdsGen \ {<<>>} :
          LET outs == Generate(nodes, used, id, MaxDepth)
          IN  IF definitionsNamed(nodes, id) = {}
              THEN \A o \in outs : failed(o) /\ o.used = used
              ELSE /\ \A o \in outs : o.err \notin {<<"no such definition">>, <<"empty tree">>}
                   /\ \A o \in outs : o.used \ used \subseteq allTopBranches(nodes)
                   /\ ~ exclusive(id) /\ used = {} =>
                         {o.part : o \in {x \in Generate(nodes, used, <<"*">> \o id, MaxDepth) : x.err = <<>>}}
                            \subseteq {o.part : o \in outs}

(* C13: on a tree without definitions Generate fails for every identifier;   *)
(* Generate("") composes the most recently declared definition, so it has    *)
(* the results of Generate of that definition's name; any other identifier,  *)
(* one leading * stripped, is looked up by its exact name among the          *)
(* definitions, and when none has that name the call returns an error and    *)
(* the empty string and leaves the exclusivity set unchanged.                *)
C13_Claim ==
    /\ parsed => resolvesAmong(st.root, uniqueUsed)
    /\ calledGenerate /\ definitionsNamed(st.root, op.id) = {} /\ op.id # <<>> =>
          op.err # <<>> /\ op.part = <<>> /\ uniqueUsed = op.before

\* the claim on the trees whose root has only definitions below it
ResolvesAmongTags ==
    parsed /\ definitions(st.root) = child(st.root, 0) => C13_Claim

----------------------------------------------------------------------------
(* Vocabulary of the properties of the random draw                           *)

\* the start offsets pick = random(0, opts-1) for which a group with the
\* branches cs selects branch b
offsetsFor(cs, unique, used, b) ==
    {pick \in 0..(Len(cs) - 1) : selectBranch(cs, pick, unique, used) = b}

\* the branches a selection may return
eligible(cs, unique, used) == {cs[i] : i \in {j \in 1..Len(cs) : ~ unique \/ cs[j] \notin used}}

\* the number of marked branches that precede branch cs[i], without a gap, in
\* circular order
runBefore(cs, used, i) ==
    Max({k \in 0..(Len(cs) - 1) :
           \A j \in 1..k : cs[((i - 1 + Len(cs) - j) % Len(cs)) + 1] \in used})

groups(nodes) == ofType(nodes, "group")

\* the groups that an exclusive selection is made from
topGroups(nodes) == UNION {child(nodes, t) : t \in child(nodes, 0)}

sameForAll(cs, unique, used) ==
    \A b1, b2 \in eligible(cs, unique, used) :
       Cardinality(offsetsFor(cs, unique, used, b1)) = Cardinality(offsetsFor(cs, unique, used, b2))

(* C14 as stated: for every group and the branches marked so far, each       *)
(* eligible branch is selected for the same number of start offsets, in a    *)
(* non-exclusive and in an exclusive selection.                              *)
C14_Claim ==
    ready =>
       /\ \A g \in groups(st.root) : sameForAll(childSeq(st.root, g), FALSE, uniqueUsed)
       /\ \A g \in topGroups(st.root) : sameForAll(childSeq(st.root, g), TRUE, uniqueUsed)

(* C14: a non-exclusive selection returns each branch of the group for       *)
(* exactly one of the n start offsets; an exclusive selection returns no     *)
(* marked branch, and each unmarked branch for one start offset more than    *)
(* the number of marked branches that precede it without a gap in circular   *)
(* order, so it is unbiased when no branch of the group is marked.           *)
C14_Theorem ==
    ready =>
       /\ \A g \in groups(st.root) : \A b \in child(st.root, g) :
             Cardinality(offsetsFor(childSeq(st.root, g), FALSE, uniqueUsed, b)) = 1
       /\ \A g \in topGroups(st.root) :
             LET cs == childSeq(st.root, g)
             IN  /\ \A i \in 1..Len(cs) :
                       Cardinality(offsetsFor(cs, TRUE, uniqueUsed, cs[i]))
                          = IF cs[i] \in uniqueUsed THEN 0 ELSE 1 + runBefore(cs, uniqueUsed, i)
                 /\ child(st.root, g) \cap uniqueUsed = {} => sameForAll(cs, TRUE, uniqueUsed)

\* one of the three branches of a is marked, and the branch after it is
\* selected for two of the three start offsets
C14_Witness ==
    /\ ready /\ grammar = GUnique /\ Cardinality(uniqueUsed) = 1
    /\ \E b \in topBranches(st.root, <<"a">>) :
          Cardinality(offsetsFor(childSeq(st.root, st.root[b].parent), TRUE, uniqueUsed, b)) = 2

----------------------------------------------------------------------------
(* Vocabulary of the properties of the output normalization                  *)

\* the tokens of "a [ << b ] e [ x {a} ]", the grammar "c[<< b] a[x {c}]"
\* with its definitions named a and e
JoinExample ==
    <<<<"a">>, <<"[">>, <<"<", "<">>, <<"b">>, <<"]">>,
      <<"e">>, <<"[">>, <<"x">>, <<"{", "a", "}">>, <<"]">>>>

\* the phrases of the successful results of Generate
phrasesOf(outs) == {o.part : o \in {x \in outs : x.err = <<>>}}

\* a text with exactly one span, the reference {a}
oneReference(text, a) ==
    /\ occurrences(text, <<"{">>) = 1
    /\ occurrences(text, <<"{">> \o a \o <<"}">>) = 1

\* the text with its span replaced by p
spliced(text, p) ==
    LET seq == findSequence(text)
    IN  SubSeq(text, 1, seq[1] - 1) \o p \o From(text, seq[2] + 1)

\* the whole normalization of a composed phrase: the punctuation clean-up of
\* compose, then the post-processing of Generate
normalized(raw) == {postProcess(t) : t \in tidy(raw)}

\* the phrase of a straight definition composed with its references
\* replaced by the text of the definitions they name, nothing normalized
RECURSIVE rawPhrase(_, _, _)
rawPhrase(nodes, id, d) ==
    LET text == bodyText(nodes, id)
        seq == findSequence(text)
        tag == SubSeq(text, seq[1] + 1, seq[2] - 1)
    IN  IF seq[2] = 0 \/ d = 0 THEN text
        ELSE spliced(text, rawPhrase(nodes, tag, d - 1))

\* a straight definition with one reference, to a straight definition
\* without references
chained(nodes, id) ==
    /\ straight(nodes, id)
    /\ \E a \in names(nodes) :
          /\ oneReference(bodyText(nodes, id), a)
          /\ straight(nodes, a)
          /\ occurrences(bodyText(nodes, a), <<"{">>) = 0

----------------------------------------------------------------------------
(* Vocabulary of the properties of the uppercase marker                      *)

\* s with every ^ that has a character after it deleted and every character
\* that follows a ^ uppercased
RECURSIVE upperMarksFrom(_, _)
upperMarksFrom(s, i) ==
    IF i > Len(s) THEN <<>>
    ELSE (IF s[i] = "^" /\ i < Len(s) THEN <<>>
          ELSE IF i > 1 /\ s[i - 1] = "^" THEN <<ToUpper(s[i])>>
          ELSE <<s[i]>>) \o upperMarksFrom(s, i + 1)

upperMarks(s) == upperMarksFrom(s, 1)

\* a text of letters, spaces and ^ markers
markedText(text) == \A i \in 1..Len(text) : text[i] \in plainChars \cup {"^"}

\* a straight definition whose text is such a text
markedDefinition(nodes, id) ==
    id # <<>> /\ ~ exclusive(id) /\ straight(nodes, id) /\ markedText(bodyText(nodes, id))

----------------------------------------------------------------------------
(* Vocabulary of the properties of spans that do not resolve                 *)

\* the references of a text that name no top-level node
unresolved(nodes, text) == {tag \in spanTags(text) : isReference(tag) /\ target(nodes, tag) = {}}

\* the tag of the first complete span of a text
firstTag(text) == SubSeq(text, findSequence(text)[1] + 1, findSequence(text)[2] - 1)

placeholder == <<"(", "E", "R", "R", "O", "R", ")">>

\* Generate was called for a straight definition by its name, and the text
\* of the definition has a reference that does not resolve
calledOnUnresolved ==
    /\ calledGenerate /\ op.id # <<>> /\ ~ exclusive(op.id)
    /\ straight(st.root, op.id)
    /\ unresolved(st.root, bodyText(st.root, op.id)) # {}

(* C17 as stated: a span that is not {\n}, not a range and not a reference   *)
(* that resolves does not make Generate fail; it is replaced by "(ERROR)".   *)
C17_Claim ==
    calledOnUnresolved /\ spanTags(bodyText(st.root, op.id)) = unresolved(st.root, bodyText(st.root, op.id)) =>
       op.err = <<>> /\ Contains(op.part, placeholder)

(* C17: a span that is not {\n}, not a range and not a reference that        *)
(* resolves makes Generate fail: the call returns the empty string and the   *)
(* error of the nested Generate call with the tag of the span appended, and  *)
(* no phrase that Generate returns contains "(ERROR)".                       *)
C17_Theorem ==
    /\ calledOnUnresolved =>
          /\ op.err # <<>> /\ op.part = <<>>
          /\ firstTag(bodyText(st.root, op.id)) \in unresolved(st.root, bodyText(st.root, op.id)) =>
                op.err = <<"from", "no such definition", "(">>
                            \o firstTag(bodyText(st.root, op.id)) \o <<")">>
    /\ calledGenerate /\ op.err = <<>> => ~ Contains(op.part, placeholder)

\* the reference {z} was met after a word and Generate failed
C17_Witness ==
    /\ calledOnUnresolved
    /\ bodyText(st.root, op.id) = <<"x", " ", "{", "z", "}">>
    /\ op.err = <<"from", "no such definition", "(", "z", ")">>

----------------------------------------------------------------------------
(* C18: in every tree that a successful parse returns, every Tag node has    *)
(* exactly one child, a Group, and every Group node has at least one child,  *)
(* each a Text or a Dummy node and none a Group.                             *)
C18_Theorem ==
    accepted =>
       /\ \A t \in ofType(st.root, "tag") :
             /\ Cardinality(child(st.root, t)) = 1
             /\ \A c \in child(st.root, t) : st.root[c].internalType = "group"
       /\ \A g \in ofType(st.root, "group") :
             /\ Cardinality(child(st.root, g)) >= 1
             /\ \A c \in child(st.root, g) :
                   st.root[c].internalType \in {"text", "dummy"} /\ st.root[c].internalType # "group"

\* a definition with a group directly inside its group and a text after it
\* was parsed
C18_Witness ==
    /\ accepted
    /\ Cardinality(ofType(st.root, "tag")) = 1
    /\ Cardinality(ofType(st.root, "group")) = 2
    /\ \E d \in ofType(st.root, "dummy") : Cardinality(child(st.root, d)) = 2

----------------------------------------------------------------------------
(* Vocabulary of the properties of the path stack                            *)

\* the nodes that a path of texts leads through, from node group down, taking
\* at each level the last child with the text; <<>> if a text is missing
RECURSIVE resolve(_, _, _)
resolve(nodes, group, path) ==
    IF path = <<>> THEN <<>>
    ELSE LET found == {i \in child(nodes, group) : nodes[i].Text = path[1]}
             rest == resolve(nodes, Max(found), Tail(path))
         IN  IF found = {} THEN <<>>
             ELSE IF Len(rest) < Len(path) - 1 THEN <<>>
             ELSE <<Max(found)>> \o rest

\* the numbers from a to b in order
RECURSIVE fromTo(_, _)
fromTo(a, b) == IF a > b THEN <<>> ELSE <<a>> \o fromTo(a + 1, b)

\* the node that was created for each entry of the path stack, when the entry
\* was pushed, after the tokens toks
RECURSIVE cursor(_)
cursor(toks) ==
    IF toks = <<>> THEN <<>>
    ELSE LET front == SubSeq(toks, 1, Len(toks) - 1)
             s0 == readAll(parseStart, front)
             s1 == readAll(parseStart, toks)
             prev == cursor(front)
         IN  IF s1.err # "" THEN prev
             ELSE IF Len(s1.stack) > Len(s0.stack)
             THEN prev \o fromTo(Len(s0.root) + 1, Len(s1.root))
             ELSE SubSeq(prev, 1, Len(s1.stack))

\* the nodes that the last token added
added(toks) ==
    (Len(readAll(parseStart, SubSeq(toks, 1, Len(toks) - 1)).root) + 1)..Len(readAll(parseStart, toks).root)

\* the nodes on the cursor before or after the last token
onCursor(toks) ==
    LET before == cursor(SubSeq(toks, 1, Len(toks) - 1))
        after == cursor(toks)
    IN  {before[i] : i \in 1..Len(before)} \cup {after[i] : i \in 1..Len(after)}

\* an earlier sibling of node n has the text of n
twin(nodes, n) ==
    \E m \in 1..(n - 1) : nodes[m].parent = nodes[n].parent /\ nodes[m].Text = nodes[n].Text

(* C20: while parseInternal reads tokens no root.add call returns the        *)
(* 'incorrect path' error: the path stack, looked up by text from the root   *)
(* taking the last child with each text, leads through exactly the nodes     *)
(* that were created for its entries, each the child of the one before, and  *)
(* every node is added below the root or a node of the stack, also when      *)
(* siblings have the same text.                                              *)
C20_Theorem ==
    st.err = "" /\ op.name = "parseInternal" =>
       LET cur == cursor(token)
       IN  /\ ~ st.addErr
           /\ Len(cur) = Len(st.stack)
           /\ resolve(st.root, 0, st.stack) = cur
           /\ \A i \in 1..Len(cur) :
                 /\ st.root[cur[i]].Text = st.stack[i]
                 /\ st.root[cur[i]].parent = (IF i = 1 THEN 0 ELSE cur[i - 1])
           /\ token # <<>> =>
                 \A n \in added(token) :
                    /\ st.root[n].parent \in {0} \cup onCursor(token)
                    /\ st.root[n].parent = 0 => Len(cur) <= 2 /\ (cur # <<>> => cur[1] = n)

\* the path stack leads through the second of two sibling dummies
C20_Witness ==
    /\ st.err = "" /\ op.name = "parseInternal"
    /\ \E i \in 1..Len(st.stack) :
          /\ twin(st.root, cursor(token)[i])
          /\ i < Len(st.stack)

----------------------------------------------------------------------------
(* The loops of generation step by step: the rescan loop of inflate, on the  *)
(* text of any Text node, and the ^ loop of Generate, on the phrase that     *)
(* compose returned. op.name is the position (in a loop or between calls),   *)
(* op.part the string the loop works on, pos the Text node being inflated.   *)

\* "a[b|c] e[{a} ^ {*a} {1-2} {\n} ^]": references, a range, the newline and two ^ markers, the last at the end
LMixed ==
    <<"a", "[", "b", "|", "c", "]", " ", "e", "[", "{", "a", "}", " ", "^", " ", "{",
      "*", "a", "}", " ", "{", "1", "-", "2", "}", " ", "{", "\\", "n", "}", " ", "^",
      "]">>

\* "r[x {r} | s]": TestParsing: a definition that refers to itself
LRecursive ==
    <<"r", "[", "x", " ", "{", "r", "}", " ", "|", " ", "s", "]">>

\* "a[^ ^ b ^] e[{z} {a}]": ^ markers in a row, and a reference to no definition
LMarks ==
    <<"a", "[", "^", " ", "^", " ", "b", " ", "^", "]", " ", "e", "[", "{", "z", "}",
      " ", "{", "a", "}", "]">>

\* "a[b] e[{} {a}]": the empty reference names the last definition, here the one it is in
LLast ==
    <<"a", "[", "b", "]", " ", "e", "[", "{", "}", " ", "{", "a", "}", "]">>

\* "a[{e} x] e[^ y | {2-1}]": a reference to a later definition, and a range with no value
LChain ==
    <<"a", "[", "{", "e", "}", " ", "x", "]", " ", "e", "[", "^", " ", "y", " ", "|",
      " ", "{", "2", "-", "1", "}", "]">>

LoopGrammars == {LMixed, LRecursive, LMarks, LLast, LChain}

InitLoops ==
    /\ grammar \in LoopGrammars
    /\ files = <<>>
    /\ token = tokenize(grammar)
    /\ pos = 0
    /\ st = Parse(grammar)
    /\ uniqueUsed = {}
    /\ op = call("Parse", <<>>, <<>>, <<>>, {})

\* between two calls
idle == op.name \in {"Parse", "inflated", "Generate"} /\ st.err = ""

\* part, err := tree.inflate(node.Text, unique)
CallInflate ==
    /\ idle
    /\ \E n \in 1..Len(st.root) :
          /\ st.root[n].internalType = "text"
          /\ pos' = n
          /\ op' = call("inflate", <<>>, st.root[n].Text, <<>>, uniqueUsed)
    /\ UNCHANGED <<grammar, files, token, st, uniqueUsed>>

\* one pass of "for changed" that finds a complete {...} span: the span is
\* replaced, or the error of the reference is returned
InflateStep ==
    /\ op.name = "inflate"
    /\ findSequence(op.part)[2] # 0
    /\ LET seq == findSequence(op.part)
       IN  \E o \in replaceWith(st.root, SubSeq(op.part, seq[1], seq[2]), uniqueUsed, MaxDepth) :
              /\ uniqueUsed' = o.used
              /\ op' = IF o.err # <<>> THEN call("inflated", <<>>, <<>>, o.err, op.before)
                       ELSE [op EXCEPT !.part = splice(op.part, seq[1], seq[2], o.part)]
    /\ UNCHANGED <<grammar, files, token, pos, st>>

\* the pass that finds no complete span: changed stays false, s is returned
InflateReturn ==
    /\ op.name = "inflate"
    /\ findSequence(op.part)[2] = 0
    /\ op' = [op EXCEPT !.name = "inflated"]
    /\ UNCHANGED <<grammar, files, token, pos, st, uniqueUsed>>

\* Generate(id) for a definition that has a body, down to the ^ loop: compose
\* returns an error, or a phrase that is post-processed
GenerateCompose ==
    /\ idle
    /\ \E t \in child(st.root, 0) : \E unique \in BOOLEAN :
          /\ child(st.root, t) # {}
          /\ LET id == IF unique THEN <<"*">> \o st.root[t].Text ELSE st.root[t].Text
             IN  \E o \in compose(st.root, childSeq(st.root, t)[1], unique, uniqueUsed, MaxDepth) :
                    /\ uniqueUsed' = o.used
                    /\ op' = IF o.err # <<>> THEN call("Generate", id, <<>>, o.err, uniqueUsed)
                             ELSE call("capitalize", id, untilCapitalize(o.part), <<>>, uniqueUsed)
    /\ UNCHANGED <<grammar, files, token, pos, st>>

\* mutant of CapitalizeStep: part is not assigned the rebuilt string
CapitalizeStepKeep ==
    /\ op.name = "capitalize"
    /\ LET p == Index(op.part, <<"^">>)
       IN  /\ p # 0 /\ p < Len(op.part)
           /\ op' = op
    /\ UNCHANGED <<grammar, files, token, pos, st, uniqueUsed>>

\* one iteration of the ^ loop that finds a ^ with a character after it
CapitalizeStep ==
    /\ op.name = "capitalize"
    /\ LET p == Index(op.part, <<"^">>)
       IN  /\ p # 0 /\ p < Len(op.part)
           /\ op' = [op EXCEPT !.part = SubSeq(op.part, 1, p - 1) \o <<ToUpper(op.part[p + 1])>>
                                           \o From(op.part, p + 2)]
    /\ UNCHANGED <<grammar, files, token, pos, st, uniqueUsed>>

\* no ^ is left, or the first ^ is the last character (break): return part
CapitalizeReturn ==
    /\ op.name = "capitalize"
    /\ LET p == Index(op.part, <<"^">>)
       IN  p = 0 \/ p >= Len(op.part)
    /\ op' = [op EXCEPT !.name = "Generate"]
    /\ UNCHANGED <<grammar, files, token, pos, st, uniqueUsed>>

NextLoops ==
    CallInflate \/ InflateStep \/ InflateReturn \/ GenerateCompose \/ CapitalizeStep \/ CapitalizeReturn

\* the scan of a pass of inflate found a complete {...} span
spanFound == op.name = "inflate" /\ findSequence(op.part)[2] # 0

\* a loop that can make a step makes one: the program is one thread that
\* never waits. InflateStep can be taken exactly where spanFound holds (the
\* replacement is never missing, StepEnabled below, and the step changes op),
\* so its weak fairness is stated on spanFound instead of ENABLED.
SpecLoops ==
    /\ InitLoops /\ [][NextLoops]_vars
    /\ (<>[]spanFound => []<><<InflateStep>>_vars)
    /\ WF_vars(InflateReturn)
    /\ WF_vars(CapitalizeStep) /\ WF_vars(CapitalizeReturn)

\* where a span is found InflateStep has a successor, and it is not a stutter
StepEnabled ==
    spanFound =>
       LET seq == findSequence(op.part)
           with == replaceWith(st.root, SubSeq(op.part, seq[1], seq[2]), uniqueUsed, MaxDepth)
       IN  /\ with # {}
           /\ \A o \in with : o.err = <<>> => splice(op.part, seq[1], seq[2], o.part) # op.part

\* the loops step by step return what inflate and Generate return
LoopsAgree ==
    /\ op.name = "inflated" =>
          outcome(op.part, op.err, uniqueUsed) \in inflate(st.root, st.root[pos].Text, op.before, MaxDepth)
    /\ op.name = "Generate" =>
          outcome(op.part, op.err, uniqueUsed) \in Generate(st.root, op.before, op.id, MaxDepth)

----------------------------------------------------------------------------
(* Vocabulary of the properties of termination                               *)

inInflate == op.name = "inflate"

inCapitalize == op.name = "capitalize"

\* the recursion of Generate through references went deeper than MaxDepth
overflowed(err) == \E i \in 1..Len(err) : err[i] = "stack overflow"

\* the number of { of the string a loop works on, and the number of ^
braces == occurrences(op.part, <<"{">>)

carets == occurrences(op.part, <<"^">>)

(* C19: on a parsed tree whose references form no cycle ({} counted as a     *)
(* reference to the last definition) every call ends: no chain of nested     *)
(* Generate calls is longer than the number of definitions, the rescan loop  *)
(* of inflate returns, each pass that does not return leaving one { less,    *)
(* and the ^ loop of Generate returns, each iteration that does not return   *)
(* leaving one ^ less.                                                       *)
C19_Theorem ==
    /\ [](acyclic(st.root) => ~ overflowed(op.err))
    /\ [][acyclic(st.root) /\ inInflate /\ inInflate' => braces' = braces - 1]_vars
    /\ [][inCapitalize /\ inCapitalize' => carets' = carets - 1]_vars
    /\ (acyclic(st.root) /\ inInflate) ~> (op.name = "inflated")
    /\ inCapitalize ~> (op.name = "Generate")

\* the rescan loop returned after it replaced the four spans of a text
C19_Witness ==
    /\ op.name = "inflated" /\ op.err = <<>>
    /\ acyclic(st.root)
    /\ occurrences(st.root[pos].Text, <<"{">>) = 4
    /\ braces = 0

----------------------------------------------------------------------------
(* Vocabulary of the properties of the end of the input                      *)

\* the identifiers written in the source: the words outside every group
identifiers(toks) == {i \in 1..Len(toks) : isWord(toks[i]) /\ depthAt(toks, i) = 0}

\* the identifier at token i is followed by the [ of its body
hasBody(toks, i) == i < Len(toks) /\ toks[i + 1] = <<"[">>

(* C21: when Parse succeeds no collected identifier is left unconsumed: each  *)
(* identifier of the token stream, the last one included, is followed by the *)
(* [ of a body, the tree holds at least one top-level definition, and it     *)
(* holds one Tag per identifier written in the source.                       *)
C21_Claim ==
    accepted =>
       /\ st.collect = <<>>
       /\ \A i \in identifiers(token) : hasBody(token, i)
       /\ child(st.root, 0) # {}
       /\ Cardinality(ofType(st.root, "tag")) = Cardinality(identifiers(token))

\* the claim on the streams in which every identifier is followed by [
TagPerOpenedIdentifier ==
    accepted /\ (\A i \in identifiers(token) : hasBody(token, i)) => C21_Claim

\* Parse returned a tree while an identifier that follows a complete
\* definition was still collected
LeftoverAccepted ==
    /\ accepted
    /\ st.collect # <<>>
    /\ child(st.root, 0) # {}

====
